---- MODULE Spec2Model ----
(***************************************************************************)
(* Model of app.py, the Streamlit lead auditor.  One run of the script is  *)
(* the sequence of steps                                                    *)
(*   first uploader + SAFETY CHECK  (lines 34-47)                           *)
(*   second uploader + load         (lines 57-66)                           *)
(*   cleaning engine                (lines 69-71)                           *)
(*   domain encoding                (lines 73-74)                           *)
(*   IsolationForest + label map    (lines 77-80)                           *)
(*   blacklist rule                 (lines 83-84)                           *)
(*   short phone rule               (line  85)                              *)
(*   combined override              (lines 88-93)                           *)
(*   preview and Excel export       (lines 96-112)                          *)
(* A cell of the loaded table is a string (a sequence of characters) or    *)
(* NaN, which is what read_csv / read_excel produce for an empty cell.     *)
(* pandas semantics are those of pandas 1.x/2.x: astype(str) turns NaN     *)
(* into the string 'nan', a column whose cells are all NaN has dtype       *)
(* float64, and the .str accessor raises AttributeError on such a column.  *)
(* Streamlit's calls are taken to return normally, the two file uploaders  *)
(* being two widgets that each hold a file of their own.                   *)
(***************************************************************************)
EXTENDS Integers, Sequences, FiniteSets, TLC

\* ---------------------------------------------------------------- bounds
\* Rows of a file given to the second uploader (the one that is processed),
\* rows of a file given to the first uploader (only its header is inspected),
\* and script runs per browser session.
MaxRows == 2
MaxRows1 == 1
MaxRuns == 2

\* ------------------------------------------------------------ characters
\* The characters used by the sample inputs, in code point order.
Alphabet ==
  << "(", ")", "-", ".", "0", "1", "2", "3", "5", "9", "@",
     "A", "B", "E", "F", "J", "K", "M", "O", "S", "T",
     "a", "b", "f", "g", "i", "j", "k", "l", "m", "n", "o", "r", "t" >>

Ord(c) == CHOOSE i \in 1..Len(Alphabet) : Alphabet[i] = c

Digits == {"0", "1", "2", "3", "4", "5", "6", "7", "8", "9"}

\* re.IGNORECASE folding of a character (str.contains(..., case=False)).
Upper(c) ==
  CASE c = "a" -> "A" [] c = "b" -> "B" [] c = "e" -> "E" [] c = "f" -> "F"
    [] c = "j" -> "J" [] c = "k" -> "K" [] c = "l" -> "L" [] c = "m" -> "M"
    [] c = "n" -> "N" [] c = "o" -> "O" [] c = "r" -> "R" [] c = "s" -> "S"
    [] c = "t" -> "T" [] c = "g" -> "G" [] c = "i" -> "I"
    [] OTHER -> c

UpperStr(s) == [i \in 1..Len(s) |-> Upper(s[i])]

\* t occurs in s as a contiguous substring.
Contains(s, t) ==
  \E i \in 1..(Len(s) - Len(t) + 1) : SubSeq(s, i, i + Len(t) - 1) = t

\* Python's ordering of str: lexicographic by code point.
StrLess(s, t) ==
  \E k \in 0..Len(s) :
    /\ k <= Len(t)
    /\ \A i \in 1..k : s[i] = t[i]
    /\ \/ (k = Len(s) /\ k < Len(t))
       \/ (k < Len(s) /\ k < Len(t) /\ Ord(s[k+1]) < Ord(t[k+1]))

\* ----------------------------------------------------------------- cells
NaN == [na |-> TRUE, s |-> <<>>]
Str(s) == [na |-> FALSE, s |-> s]

\* Series.astype(str) on one element: NaN becomes the string 'nan'.
AsTypeStr(cell) == IF cell.na THEN <<"n", "a", "n">> ELSE cell.s

\* Variant of StripNonDigits: only the dashes are removed (re.sub('-', '', x)).
RECURSIVE StripDashes(_)
StripDashes(x) ==
  IF x = <<>> THEN <<>>
  ELSE IF Head(x) # "-"
       THEN <<Head(x)>> \o StripDashes(Tail(x))
       ELSE StripDashes(Tail(x))

\* re.sub(r'\D', '', x): the digit characters of x, in order.
RECURSIVE StripNonDigits(_)
StripNonDigits(x) ==
  IF x = <<>> THEN <<>>
  ELSE IF Head(x) \in Digits
       THEN <<Head(x)>> \o StripNonDigits(Tail(x))
       ELSE StripNonDigits(Tail(x))

\* .str.split('@').str[-1] on one element: the part after the last '@',
\* the whole string when there is no '@'; NaN stays NaN.
RECURSIVE AfterLastAt(_)
AfterLastAt(s) ==
  IF \E i \in 1..Len(s) : s[i] = "@"
  THEN AfterLastAt(SubSeq(s, (CHOOSE i \in 1..Len(s) : s[i] = "@") + 1, Len(s)))
  ELSE s

StrSplitLast(cell) == IF cell.na THEN NaN ELSE Str(AfterLastAt(cell.s))

\* Series.fillna(v) on one element.
FillNa(cell, v) == IF cell.na THEN Str(v) ELSE cell

none == <<"n", "o", "n", "e">>

\* Line 74: the token handed to the LabelEncoder for one Email cell.
DomainToken(email) == FillNa(StrSplitLast(Str(AsTypeStr(email))), none).s

\* Lines 83/88: the blacklist, and str.contains('BOT|TEST|FAKE', case=False,
\* na=False) on one element.
blacklist == << <<"B", "O", "T">>, <<"T", "E", "S", "T">>, <<"F", "A", "K", "E">> >>

NameMatches(cell) ==
  IF cell.na THEN FALSE
  ELSE \E k \in 1..Len(blacklist) : Contains(UpperStr(cell.s), blacklist[k])

\* Line 41.
required == <<"Name", "Email", "Phone">>


\* ---------------------------------------------------------- sample inputs
\* Rows a user can upload: a clean lead, the template's bot row, a row whose
\* cells are all empty, a row with a short phone and an Email without '@',
\* a row whose phone consists of symbols only, and a second clean lead.
SampleRows ==
  { [Name  |-> Str(<<"J", "o">>),
     Email |-> Str(<<"j", "@", "g">>),
     Phone |-> Str(<<"3","5","2","-","5","5","5","-","0","1","9","9">>)],
    [Name  |-> Str(<<"a", "B", "o", "t">>),
     Email |-> Str(<<"b", "@", "t", "@", "r">>),
     Phone |-> Str(<<"0","0","0","0","0","0","0","0","0","0">>)],
    [Name  |-> NaN, Email |-> NaN, Phone |-> NaN],
    [Name  |-> Str(<<"A", "l">>),
     Email |-> Str(<<"f", "o", "o">>),
     Phone |-> Str(<<"5", "-", "1">>)],
    [Name  |-> Str(<<"M", "o">>),
     Email |-> Str(<<"m", "@", "g">>),
     Phone |-> Str(<<"(", "-", ")">>)],
    [Name  |-> Str(<<"K", "i", "m">>),
     Email |-> Str(<<"k", "@", "g">>),
     Phone |-> Str(<<"3","5","2","5","5","5","0","1","9","9">>)] }

RowSeqs(max) == UNION { [1..n -> SampleRows] : n \in 0..max }

AllColumns == {"Name", "Email", "Phone"}

\* Header sets of the uploaded files: complete, or lacking one column.
ColumnSets == {AllColumns} \cup { AllColumns \ {c} : c \in AllColumns }

\* st.file_uploader returns None until a file is uploaded.
None == [present |-> FALSE, cols |-> {}, rows |-> <<>>]

Files(max) ==
  { [present |-> TRUE, cols |-> c, rows |-> r] : c \in ColumnSets, r \in RowSeqs(max) }

\* What the user can have put into the first and into the second uploader.
Uploads1 == Files(MaxRows1) \cup {None}
Uploads2 == Files(MaxRows) \cup {None}

\* ------------------------------------------------------------------ state
VARIABLES
  pc,              \* position of the script run
  run,             \* number of the script run within the browser session
  file1,           \* value held by the first uploader widget   (line 34)
  file2,           \* value held by the second uploader widget  (line 57)
  uploaded_file,   \* the script's variable uploaded_file
  df,              \* the script's table: loaded flag, columns, raw rows
  Phone_Cleaned,   \* derived column (line 69)
  name_len,        \* derived column (line 70)
  phone_len,       \* derived column (line 71)
  le,              \* LabelEncoder: fitted flag and classes_
  domain_id,       \* derived column (line 74)
  model,           \* IsolationForest instance
  anomaly_score,   \* derived column (line 79)
  Quality_Label,   \* derived column (lines 80-93)
  error,           \* how the run ended abnormally, "" otherwise
  READY_TO_CALL,   \* exported sheet: indices of the rows written (line 103)
  REVIEW_REQUIRED, \* exported sheet: indices of the rows written (line 104)
  exported,        \* the workbook has been written in this run
  prev,            \* history: input and labels of the previous completed run
  memo             \* history: results fit_predict has returned so far

vars == << pc, run, file1, file2, uploaded_file, df, Phone_Cleaned, name_len,
           phone_len, le, domain_id, model, anomaly_score, Quality_Label,
           error, READY_TO_CALL, REVIEW_REQUIRED, exported, prev, memo >>

Good == "Good"
Junk == "Junk/Bot"

NoTable == [loaded |-> FALSE, cols |-> {}, rows |-> <<>>]
NoEncoder == [fitted |-> FALSE, classes_ |-> <<>>]
NoModel == [built |-> FALSE, contamination |-> 0, seeded |-> FALSE, random_state |-> 0]
NoPrev == [valid |-> FALSE, rows |-> <<>>, labels |-> <<>>]

\* The script's globals at the start of a run, before line 34.
FreshGlobals ==
  /\ uploaded_file = None
  /\ df = NoTable
  /\ Phone_Cleaned = <<>>
  /\ name_len = <<>>
  /\ phone_len = <<>>
  /\ le = NoEncoder
  /\ domain_id = <<>>
  /\ model = NoModel
  /\ anomaly_score = <<>>
  /\ Quality_Label = <<>>
  /\ error = ""
  /\ READY_TO_CALL = <<>>
  /\ REVIEW_REQUIRED = <<>>
  /\ exported = FALSE

Init ==
  /\ pc = "start"
  /\ run = 1
  /\ file1 = None
  /\ file2 = None
  /\ FreshGlobals
  /\ prev = NoPrev
  /\ memo = {}

\* ------------------------------------------------------------ the script
\* pd.read_csv / pd.read_excel (lines 38, 62-64): the table of a file.
ReadTable(f) == [loaded |-> TRUE, cols |-> f.cols, rows |-> f.rows]

\* Line 42: missing = [c for c in required if c not in df.columns]
missing(t) == SelectSeq(required, LAMBDA c : c \notin t.cols)

N == Len(df.rows)

\* dtype pandas infers for a raw column: float64 when every cell of a
\* non-empty column is NaN, object otherwise.
Dtype(t, c) ==
  IF Len(t.rows) > 0 /\ \A i \in 1..Len(t.rows) : t.rows[i][c].na
  THEN "float64" ELSE "object"

\* Lines 34-47: first uploader and SAFETY CHECK.  On the first run of a
\* session the user picks the file; on a rerun the widget keeps its value.
Upload1Check ==
  /\ pc = "start"
  /\ \E f \in (IF run = 1 THEN Uploads1 ELSE {file1}) :
       /\ file1' = f
       /\ uploaded_file' = f
       /\ IF f.present
          THEN /\ df' = ReadTable(f)
               /\ IF missing(ReadTable(f)) # <<>>
                  THEN pc' = "stopped" /\ error' = "SchemaError"
                  ELSE pc' = "page_setup" /\ error' = error
          ELSE /\ df' = df
               /\ pc' = "page_setup"
               /\ error' = error
  /\ UNCHANGED << run, file2, Phone_Cleaned, name_len, phone_len, le, domain_id,
                  model, anomaly_score, Quality_Label, READY_TO_CALL,
                  REVIEW_REQUIRED, exported, prev, memo >>

\* Lines 51-66: page setup, second uploader, load.  uploaded_file is bound
\* again, to the value of the second widget, and df is loaded from it.
Upload2Load ==
  /\ pc = "page_setup"
  /\ \E f \in (IF run = 1 THEN Uploads2 ELSE {file2}) :
       /\ file2' = f
       /\ uploaded_file' = f
       /\ IF f.present
          THEN df' = ReadTable(f) /\ pc' = "clean"
          ELSE df' = df /\ pc' = "done"
  /\ UNCHANGED << run, file1, Phone_Cleaned, name_len, phone_len, le, domain_id,
                  model, anomaly_score, Quality_Label, error, READY_TO_CALL,
                  REVIEW_REQUIRED, exported, prev, memo >>

\* Lines 69-71: cleaning engine.  df['Phone'] raises KeyError before anything
\* is assigned; df['Name'] raises KeyError after Phone_Cleaned was assigned.
Clean ==
  /\ pc = "clean"
  /\ IF "Phone" \notin df.cols
     THEN /\ pc' = "crashed" /\ error' = "KeyError"
          /\ UNCHANGED << df, Phone_Cleaned, name_len, phone_len >>
     ELSE /\ Phone_Cleaned' =
               [i \in 1..N |-> StripNonDigits(AsTypeStr(df.rows[i].Phone))]
          /\ IF "Name" \notin df.cols
             THEN /\ pc' = "crashed" /\ error' = "KeyError"
                  /\ df' = [df EXCEPT !.cols = @ \cup {"Phone_Cleaned"}]
                  /\ UNCHANGED << name_len, phone_len >>
             ELSE /\ name_len' = [i \in 1..N |-> Len(AsTypeStr(df.rows[i].Name))]
                  /\ phone_len' = [i \in 1..N |-> Len(Phone_Cleaned'[i])]
                  /\ df' = [df EXCEPT !.cols =
                              @ \cup {"Phone_Cleaned", "name_len", "phone_len"}]
                  /\ pc' = "encode" /\ error' = error
  /\ UNCHANGED << run, file1, file2, uploaded_file, le, domain_id, model,
                  anomaly_score, Quality_Label, READY_TO_CALL, REVIEW_REQUIRED,
                  exported, prev, memo >>


\* np.unique inside LabelEncoder.fit: the distinct tokens in sorted order.
RECURSIVE SortedUnique(_)
SortedUnique(S) ==
  IF S = {} THEN <<>>
  ELSE LET m == CHOOSE x \in S : \A y \in S \ {x} : StrLess(x, y)
       IN  <<m>> \o SortedUnique(S \ {m})

\* LabelEncoder.transform on one token: its 0-based position in classes_.
Transform(classes, token) ==
  (CHOOSE k \in 1..Len(classes) : classes[k] = token) - 1

\* Lines 73-74: a new LabelEncoder is fitted on the domain tokens.
Encode ==
  /\ pc = "encode"
  /\ IF "Email" \notin df.cols
     THEN /\ pc' = "crashed" /\ error' = "KeyError"
          /\ le' = [fitted |-> FALSE, classes_ |-> <<>>]
          /\ UNCHANGED << df, domain_id >>
     ELSE LET tokens  == [i \in 1..N |-> DomainToken(df.rows[i].Email)]
              classes == SortedUnique({tokens[i] : i \in 1..N})
          IN  /\ le' = [fitted |-> TRUE, classes_ |-> classes]
              /\ domain_id' = [i \in 1..N |-> Transform(classes, tokens[i])]
              /\ df' = [df EXCEPT !.cols = @ \cup {"domain_id"}]
              /\ pc' = "fit" /\ error' = error
  /\ UNCHANGED << run, file1, file2, uploaded_file, Phone_Cleaned, name_len,
                  phone_len, model, anomaly_score, Quality_Label, READY_TO_CALL,
                  REVIEW_REQUIRED, exported, prev, memo >>

\* Variant of IsolationForest: the model is built without random_state.
IsolationForestUnseeded ==
  [built |-> TRUE, contamination |-> 20, seeded |-> FALSE, random_state |-> 0]

\* Line 78: IsolationForest(contamination=0.20, random_state=42);
\* contamination is kept in percent.
IsolationForest ==
  [built |-> TRUE, contamination |-> 20, seeded |-> TRUE, random_state |-> 42]

\* sklearn's check_random_state: a given seed starts a fresh generator in
\* every fit; without a seed the process-wide generator is used, whose state
\* differs from one script run to the next (r is the run number).
CheckRandomState(m, r) == IF m.seeded THEN m.random_state ELSE 1000 + r

\* IsolationForest.predict flags the rows whose score lies strictly below
\* offset_ = np.percentile(scores, 100 * contamination); at most
\* ceil(contamination * (n - 1)) of n scores lie strictly below it.
MaxOutliers(n, contamination) == ((n - 1) * contamination + 99) \div 100

\* The results fit_predict can return on the feature matrix X: one flag per
\* row, 1 (inlier) or -1 (outlier); rows with equal features get equal
\* scores, hence equal flags.  Which of these it returns is a function of
\* the seed and X that is not modelled further.
ForestResults(X, contamination) ==
  { f \in [1..Len(X) -> {1, -1}] :
      /\ \A i, j \in 1..Len(X) : X[i] = X[j] => f[i] = f[j]
      /\ Cardinality({i \in 1..Len(X) : f[i] = -1})
           <= MaxOutliers(Len(X), contamination) }

\* Variant of LabelOf: the map is keyed by 0 instead of -1.
LabelOfWrongKey(score) ==
  CASE score = 1 -> Good
    [] score = 0 -> Junk
    [] OTHER -> "NaN"

\* Line 80: .map({1: Good, -1: Junk}); any other value maps to NaN.
LabelOf(score) ==
  CASE score = 1 -> Good
    [] score = -1 -> Junk
    [] OTHER -> "NaN"

\* Lines 77-80: a new model is built, fitted and applied; the scores are
\* mapped to labels.  check_array rejects a matrix of 0 rows (ValueError).
\* memo records what fit_predict returned for a seed and a matrix, so that a
\* later call with the same seed and matrix returns the same flags.
Fit ==
  /\ pc = "fit"
  /\ model' = IsolationForest
  /\ LET X    == [i \in 1..N |-> <<name_len[i], phone_len[i], domain_id[i]>>]
         seed == CheckRandomState(model', run)
         seen == {m \in memo : m.seed = seed /\ m.X = X}
     IN  IF N = 0
         THEN /\ pc' = "crashed" /\ error' = "ValueError"
              /\ UNCHANGED << df, anomaly_score, Quality_Label, memo >>
         ELSE /\ \E f \in (IF seen # {} THEN {m.flags : m \in seen}
                           ELSE ForestResults(X, model'.contamination)) :
                   /\ anomaly_score' = f
                   /\ Quality_Label' = [i \in 1..N |-> LabelOf(f[i])]
                   /\ memo' = memo \cup {[seed |-> seed, X |-> X, flags |-> f]}
              /\ df' = [df EXCEPT !.cols = @ \cup {"anomaly_score", "Quality_Label"}]
              /\ pc' = "rule_blacklist" /\ error' = error
  /\ UNCHANGED << run, file1, file2, uploaded_file, Phone_Cleaned, name_len,
                  phone_len, le, domain_id, READY_TO_CALL, REVIEW_REQUIRED,
                  exported, prev >>

\* Lines 84/89: df['Name'].str.contains(...) for every row.
is_bot == [i \in 1..N |-> NameMatches(df.rows[i].Name)]

\* Variant of is_bad_phone: df['phone_len'] <= 10
is_bad_phone_upto10 == [i \in 1..N |-> phone_len[i] <= 10]

\* Lines 85/90: df['phone_len'] < 10
is_bad_phone == [i \in 1..N |-> phone_len[i] < 10]

\* Variant of SetJunk: the whole column is rewritten from the mask
\* (np.where(mask, Junk, Good)).
SetJunkElseGood(labels, mask) ==
  [i \in 1..Len(labels) |-> IF mask[i] THEN Junk ELSE Good]

\* df.loc[mask, 'Quality_Label'] = Junk
SetJunk(labels, mask) ==
  [i \in 1..Len(labels) |-> IF mask[i] THEN Junk ELSE labels[i]]

\* Lines 83-84: first blacklist rule.  The .str accessor raises
\* AttributeError when the Name column does not hold strings.
RuleBlacklist ==
  /\ pc = "rule_blacklist"
  /\ IF Dtype(df, "Name") # "object"
     THEN /\ pc' = "crashed" /\ error' = "AttributeError"
          /\ UNCHANGED Quality_Label
     ELSE /\ Quality_Label' = SetJunk(Quality_Label, is_bot)
          /\ pc' = "rule_phone" /\ error' = error
  /\ UNCHANGED << run, file1, file2, uploaded_file, df, Phone_Cleaned, name_len,
                  phone_len, le, domain_id, model, anomaly_score, READY_TO_CALL,
                  REVIEW_REQUIRED, exported, prev, memo >>

\* Line 85: first short phone rule.
RulePhone ==
  /\ pc = "rule_phone"
  /\ Quality_Label' = SetJunk(Quality_Label, is_bad_phone)
  /\ pc' = "override"
  /\ UNCHANGED << run, file1, file2, uploaded_file, df, Phone_Cleaned, name_len,
                  phone_len, le, domain_id, model, anomaly_score, error,
                  READY_TO_CALL, REVIEW_REQUIRED, exported, prev, memo >>

\* Lines 88-93: combined is_bot | is_bad_phone override.
Override ==
  /\ pc = "override"
  /\ IF Dtype(df, "Name") # "object"
     THEN /\ pc' = "crashed" /\ error' = "AttributeError"
          /\ UNCHANGED Quality_Label
     ELSE /\ Quality_Label' =
               SetJunk(Quality_Label, [i \in 1..N |-> is_bot[i] \/ is_bad_phone[i]])
          /\ pc' = "export" /\ error' = error
  /\ UNCHANGED << run, file1, file2, uploaded_file, df, Phone_Cleaned, name_len,
                  phone_len, le, domain_id, model, anomaly_score, READY_TO_CALL,
                  REVIEW_REQUIRED, exported, prev, memo >>

\* df[df['Quality_Label'] == label]: the indices of the selected rows.
RowsLabelled(labels, label) ==
  SelectSeq([i \in 1..Len(labels) |-> i], LAMBDA i : labels[i] = label)

\* Lines 96-112: preview and the two sheets of the workbook.
Export ==
  /\ pc = "export"
  /\ READY_TO_CALL' = RowsLabelled(Quality_Label, Good)
  /\ REVIEW_REQUIRED' = RowsLabelled(Quality_Label, Junk)
  /\ exported' = TRUE
  /\ pc' = "done"
  /\ UNCHANGED << run, file1, file2, uploaded_file, df, Phone_Cleaned, name_len,
                  phone_len, le, domain_id, model, anomaly_score, Quality_Label,
                  error, prev, memo >>

Ended == pc \in {"done", "stopped", "crashed"}

\* Streamlit runs the script again (any widget interaction, for instance a
\* click on the download button): the uploader widgets keep their files,
\* every variable of the script is created anew.
Rerun ==
  /\ Ended
  /\ run < MaxRuns
  /\ pc' = "start"
  /\ run' = run + 1
  /\ uploaded_file' = None
  /\ df' = NoTable
  /\ Phone_Cleaned' = <<>>
  /\ name_len' = <<>>
  /\ phone_len' = <<>>
  /\ le' = NoEncoder
  /\ domain_id' = <<>>
  /\ model' = NoModel
  /\ anomaly_score' = <<>>
  /\ Quality_Label' = <<>>
  /\ error' = ""
  /\ READY_TO_CALL' = <<>>
  /\ REVIEW_REQUIRED' = <<>>
  /\ exported' = FALSE
  /\ prev' = IF exported
             THEN [valid |-> TRUE, rows |-> df.rows, labels |-> Quality_Label]
             ELSE prev
  /\ UNCHANGED << file1, file2, memo >>

\* The page is opened in a new browser session: nothing is kept.
NewSession ==
  /\ Ended
  /\ pc' = "start"
  /\ run' = 1
  /\ file1' = None
  /\ file2' = None
  /\ uploaded_file' = None
  /\ df' = NoTable
  /\ Phone_Cleaned' = <<>>
  /\ name_len' = <<>>
  /\ phone_len' = <<>>
  /\ le' = NoEncoder
  /\ domain_id' = <<>>
  /\ model' = NoModel
  /\ anomaly_score' = <<>>
  /\ Quality_Label' = <<>>
  /\ error' = ""
  /\ READY_TO_CALL' = <<>>
  /\ REVIEW_REQUIRED' = <<>>
  /\ exported' = FALSE
  /\ prev' = NoPrev
  /\ memo' = {}

Next ==
  \/ Upload1Check
  \/ Upload2Load
  \/ Clean
  \/ Encode
  \/ Fit
  \/ RuleBlacklist
  \/ RulePhone
  \/ Override
  \/ Export
  \/ Rerun
  \/ NewSession

Spec == Init /\ [][Next]_vars


\* ------------------------------------------------------------- properties
IsDigit(c) == c \in Digits

\* The columns the pipeline derives.
DerivedColumns ==
  {"Phone_Cleaned", "name_len", "phone_len", "domain_id", "anomaly_score",
   "Quality_Label"}

\* C1: after a complete run, a record's final Quality_Label is Junk iff its
\* name contains BOT, TEST or FAKE, or its phone_len is below 10, or the
\* scorer returned -1 for it; otherwise the label is Good.
C1_FinalLabelIffAnyFlag ==
  exported =>
    \A i \in 1..N :
      Quality_Label[i] =
        IF \/ NameMatches(df.rows[i].Name)
           \/ phone_len[i] < 10
           \/ anomaly_score[i] = -1
        THEN Junk ELSE Good

\* A complete run in which one record is Junk only because the scorer
\* flagged it and another record is Good.
C1_Witness ==
  /\ exported
  /\ \E i \in 1..N :
       /\ anomaly_score[i] = -1
       /\ ~NameMatches(df.rows[i].Name)
       /\ phone_len[i] >= 10
       /\ Quality_Label[i] = Junk
  /\ \E j \in 1..N : Quality_Label[j] = Good

\* C2: a table that lacks a required column is never processed: no derived
\* column is computed for it and the run ends with the missing-column error.
C2_MissingColumnStopsPipeline ==
  (df.loaded /\ missing(df) # <<>>) =>
    /\ df.cols \cap DerivedColumns = {}
    /\ Ended => error = "SchemaError"

InSeq(x, q) == \E k \in 1..Len(q) : q[k] = x

NoDuplicates(q) == \A k, l \in 1..Len(q) : q[k] = q[l] => k = l

\* C3: the export is a strict bipartition of the input records: every record
\* is in exactly one of the two sheets, none twice, and the sizes add up.
C3_ExportIsBipartition ==
  exported =>
    /\ Len(READY_TO_CALL) + Len(REVIEW_REQUIRED) = N
    /\ NoDuplicates(READY_TO_CALL) /\ NoDuplicates(REVIEW_REQUIRED)
    /\ \A i \in 1..N : InSeq(i, READY_TO_CALL) # InSeq(i, REVIEW_REQUIRED)
    /\ \A k \in 1..Len(READY_TO_CALL) : READY_TO_CALL[k] \in 1..N
    /\ \A k \in 1..Len(REVIEW_REQUIRED) : REVIEW_REQUIRED[k] \in 1..N

\* An export with records in both sheets, one of them Junk by the scorer.
C3_Witness ==
  /\ exported
  /\ READY_TO_CALL # <<>>
  /\ REVIEW_REQUIRED # <<>>
  /\ \E i \in 1..N : anomaly_score[i] = -1

\* C4: the blacklist rule is evaluated for every validated batch, a batch in
\* which every name is missing included: the run never ends in the
\* AttributeError of the .str accessor, and a record with a missing name is
\* not made Junk by the rule.
C4_BlacklistEvaluatesOnEveryBatch ==
  /\ ~(pc = "crashed" /\ error = "AttributeError")
  /\ pc = "rule_phone" =>
       \A i \in 1..N :
         (df.rows[i].Name.na /\ anomaly_score[i] = 1) => Quality_Label[i] = Good

\* The feature rows of the batch coincide.
AllRowsIdentical ==
  \A i, j \in 1..N :
    /\ name_len[i] = name_len[j]
    /\ phone_len[i] = phone_len[j]
    /\ domain_id[i] = domain_id[j]

\* C5: on a validated batch of zero records, of one record, or of identical
\* feature rows, the scoring step does not fail: the run leaves it with a
\* label for every record.
C5_DegenerateBatchIsScored ==
  (df.loaded /\ missing(df) = <<>> /\ "domain_id" \in df.cols
     /\ pc # "fit" /\ (N <= 1 \/ AllRowsIdentical)) =>
    /\ error # "ValueError"
    /\ Len(Quality_Label) = N
    /\ "Quality_Label" \in df.cols

HasAt(s) == \E k \in 1..Len(s) : s[k] = "@"

\* The part of s after its last '@'.
AfterLast(s) ==
  LET k == CHOOSE k \in 1..Len(s) : s[k] = "@" /\ \A l \in (k+1)..Len(s) : s[l] # "@"
  IN  SubSeq(s, k + 1, Len(s))

\* C6: the token encoded into domain_id is the part of Email after the last
\* '@'; for a missing Email or one without '@' it is the string "none".
C6_DomainTokenNoneWhenNoDomain ==
  "domain_id" \in df.cols =>
    \A i \in 1..N :
      le.classes_[domain_id[i] + 1] =
        IF df.rows[i].Email.na \/ ~HasAt(df.rows[i].Email.s)
        THEN none
        ELSE AfterLast(df.rows[i].Email.s)

\* C7: name_len is the number of characters of Name, 0 for a missing Name.
C7_NameLenZeroWhenMissing ==
  "name_len" \in df.cols =>
    \A i \in 1..N :
      name_len[i] = IF df.rows[i].Name.na THEN 0 ELSE Len(df.rows[i].Name.s)

\* C8: within a run, once the scorer has assigned the labels, no step turns
\* a Junk label into anything else.
C8_OverrideIsMonotonic ==
  [][ (pc' # "start" /\ Len(Quality_Label) = N /\ N > 0) =>
        \A i \in 1..N : Quality_Label[i] = Junk => Quality_Label'[i] = Junk ]_vars

\* A record the scorer labelled Good has been pushed to Junk by a rule, next
\* to a record the scorer itself labelled Junk.
C8_Witness ==
  /\ pc = "export"
  /\ \E i \in 1..N : anomaly_score[i] = 1 /\ Quality_Label[i] = Junk
  /\ \E j \in 1..N : anomaly_score[j] = -1 /\ Quality_Label[j] = Junk

\* C9: a complete run on the same input rows as the previous complete run
\* assigns the same Quality_Label to every record.
C9_RerunYieldsSameLabels ==
  (exported /\ prev.valid /\ prev.rows = df.rows) => Quality_Label = prev.labels

\* A second complete run on the same rows, in which the scorer flags a record.
C9_Witness ==
  /\ exported
  /\ run >= 2
  /\ prev.valid
  /\ prev.rows = df.rows
  /\ \E i \in 1..N : anomaly_score[i] = -1

\* C10: Phone_Cleaned holds only digits, namely the digits of the string
\* form of Phone in their order; for a missing or symbol-only Phone it is
\* empty and phone_len is 0.
C10_PhoneCleanedOnlyDigits ==
  "Phone_Cleaned" \in df.cols =>
    \A i \in 1..N :
      /\ \A k \in 1..Len(Phone_Cleaned[i]) : IsDigit(Phone_Cleaned[i][k])
      /\ Phone_Cleaned[i] = SelectSeq(AsTypeStr(df.rows[i].Phone), IsDigit)
      /\ (df.rows[i].Phone.na \/ \A k \in 1..Len(df.rows[i].Phone.s) :
                                    ~IsDigit(df.rows[i].Phone.s[k]))
           => /\ Phone_Cleaned[i] = <<>>
              /\ "phone_len" \in df.cols => phone_len[i] = 0

\* A cleaned batch holding a missing Phone and a Phone that mixes digits and
\* symbols.
C10_Witness ==
  /\ "phone_len" \in df.cols
  /\ \E i \in 1..N : df.rows[i].Phone.na /\ phone_len[i] = 0
  /\ \E j \in 1..N :
       /\ ~df.rows[j].Phone.na
       /\ \E k \in 1..Len(df.rows[j].Phone.s) : ~IsDigit(df.rows[j].Phone.s[k])
       /\ phone_len[j] = 10

====
